---- MODULE Spec2Model ----
(***************************************************************************)
(* The session / authentication gateway of bloat: authService (auth.go)    *)
(* wrapping service (service.go), the two repositories they share, and the *)
(* remote instance they talk to.                                           *)
(***************************************************************************)
EXTENDS Naturals, Sequences, FiniteSets, TLC

VARIABLES
  sessionRepo,  \* model.SessionRepository: session id -> Session
  appRepo,      \* model.AppRepository: instance URL -> App
  last,         \* the gateway operation that returned in the last step, and what it did
  calls,        \* the GetAuthUrl calls in flight, by session id: where each stands, its locals
  issued,       \* what GetAuthUrl returned without error: session id -> authorization URL
  sidCount,     \* session ids util.NewSessionId has handed out
  regCount,     \* applications the remote instances have registered
  clientScope   \* the service's configured client scope (svc.clientScope)

vars == <<sessionRepo, appRepo, last, calls, issued, sidCount, regCount, clientScope>>

\* The service's configuration (NewService); clientScope starts as ClientScope
\* unless the specification draws it from ClientScopes.
ClientName == "bloat"
ClientScope == "read write follow"
ClientWebsite == "https://bloat.example"

(***************************************************************************)
(* Error values.                                                           *)
(***************************************************************************)
Nil == "nil"
ErrInvalidSession == "invalid session"
ErrInvalidCSRFToken == "invalid csrf token"
ErrInvalidArgument == "invalid argument"
ErrSessionNotFound == "session not found"
ErrAppNotFound == "app not found"
ErrRemote == "remote error"
ErrStorage == "storage error"
ErrDecode == "json: cannot decode"

(***************************************************************************)
(* Values.                                                                 *)
(***************************************************************************)
NilClient == [nil |-> TRUE]

Session(id, instance, accessToken, csrfToken) ==
  [ID |-> id, InstanceURL |-> instance, AccessToken |-> accessToken, CSRFToken |-> csrfToken]

App(instance, clientID, clientSecret) ==
  [InstanceURL |-> instance, ClientID |-> clientID, ClientSecret |-> clientSecret]

\* A request context: the keys it carries, each with its string value.
CtxKeys == {"session_id", "csrf_token"}

HasValue(ctx, key) == key \in DOMAIN ctx

(***************************************************************************)
(* The repositories' Get.                                                  *)
(***************************************************************************)
SessionGet(repo, sessionID) ==
  IF sessionID \in DOMAIN repo
    THEN [session |-> repo[sessionID], err |-> Nil]
    ELSE [session |-> Session("", "", "", ""), err |-> ErrSessionNotFound]

AppGet(repo, instance) ==
  IF instance \in DOMAIN repo
    THEN [app |-> repo[instance], err |-> Nil]
    ELSE [app |-> App("", "", ""), err |-> ErrAppNotFound]

(***************************************************************************)
(* authService.getClient: the session of the context, then its instance's  *)
(* application, then the client of both.  getClient reads the session's    *)
(* instance as session.InstanceDomain, service.go writes it as InstanceURL: *)
(* the one instance field of model.Session.                                *)
(***************************************************************************)
getClient_SessionErr(ctx, sessions, apps) ==
  IF ~HasValue(ctx, "session_id") \/ Len(ctx["session_id"]) < 1
    THEN [c |-> NilClient, err |-> ErrInvalidSession]
    ELSE LET s == SessionGet(sessions, ctx["session_id"]) IN
      IF s.err # Nil
        THEN [c |-> NilClient, err |-> s.err]
        ELSE LET a == AppGet(apps, s.session.InstanceURL) IN
          IF a.err # Nil
            THEN [c |-> NilClient, err |-> a.err]
            ELSE [c |-> [Client |-> [Server |-> a.app.InstanceURL,
                                     ClientID |-> a.app.ClientID,
                                     ClientSecret |-> a.app.ClientSecret,
                                     AccessToken |-> s.session.AccessToken],
                         Session |-> s.session],
                  err |-> Nil]

getClient(ctx, sessions, apps) ==
  IF ~HasValue(ctx, "session_id") \/ Len(ctx["session_id"]) < 1
    THEN [c |-> NilClient, err |-> ErrInvalidSession]
    ELSE LET s == SessionGet(sessions, ctx["session_id"]) IN
      IF s.err # Nil
        THEN [c |-> NilClient, err |-> ErrInvalidSession]
        ELSE LET a == AppGet(apps, s.session.InstanceURL) IN
          IF a.err # Nil
            THEN [c |-> NilClient, err |-> a.err]
            ELSE [c |-> [Client |-> [Server |-> a.app.InstanceURL,
                                     ClientID |-> a.app.ClientID,
                                     ClientSecret |-> a.app.ClientSecret,
                                     AccessToken |-> s.session.AccessToken],
                         Session |-> s.session],
                  err |-> Nil]

(***************************************************************************)
(* checkCSRF: the context's csrf_token against the session's.              *)
(***************************************************************************)
ToLowerChar(ch) ==
  CASE ch = "A" -> "a" [] ch = "B" -> "b" [] ch = "C" -> "c" [] OTHER -> ch

RECURSIVE ToLower(_)
ToLower(s) ==
  IF Len(s) = 0 THEN ""
  ELSE ToLowerChar(SubSeq(s, 1, 1)) \o ToLower(SubSeq(s, 2, Len(s)))

checkCSRF_EqualFold(ctx, c) ==
  IF ~HasValue(ctx, "csrf_token") \/ ToLower(ctx["csrf_token"]) # ToLower(c.Session.CSRFToken)
    THEN ErrInvalidCSRFToken
    ELSE Nil

checkCSRF(ctx, c) ==
  IF ~HasValue(ctx, "csrf_token") \/ ctx["csrf_token"] # c.Session.CSRFToken
    THEN ErrInvalidCSRFToken
    ELSE Nil

(***************************************************************************)
(* The content operations of authService.  Each resolves the client of the *)
(* context, a mutating one then checks the CSRF token, and then the wrapped *)
(* Service is called with the resolved client.  innerErr is what the       *)
(* wrapped Service returns when it is called.                              *)
(***************************************************************************)
NoCall == [op |-> "none", ctx |-> <<>>, arg |-> NilClient, steps |-> <<>>,
           resolved |-> [c |-> NilClient, err |-> Nil], csrfErr |-> Nil,
           invoked |-> FALSE, innerClient |-> NilClient, innerErr |-> Nil, err |-> Nil]

Returned(op, ctx, arg, steps, r, csrfErr, err) ==
  [op |-> op, ctx |-> ctx, arg |-> arg, steps |-> steps, resolved |-> r,
   csrfErr |-> csrfErr, invoked |-> FALSE, innerClient |-> NilClient, innerErr |-> Nil,
   err |-> err]

Delegated(op, ctx, arg, steps, r, c, innerErr) ==
  [op |-> op, ctx |-> ctx, arg |-> arg, steps |-> Append(steps, "Service." \o op),
   resolved |-> r, csrfErr |-> Nil, invoked |-> TRUE, innerClient |-> c,
   innerErr |-> innerErr, err |-> innerErr]

\* c, err = s.getClient(ctx); if err != nil { return }; return s.Service.Op(ctx, client, c, ...)
servePage_CallerClient(op, ctx, arg, innerErr) ==
  LET r == getClient(ctx, sessionRepo, appRepo) IN
  IF r.err # Nil
    THEN Returned(op, ctx, arg, <<"getClient">>, r, Nil, r.err)
    ELSE Delegated(op, ctx, arg, <<"getClient">>, r, arg, innerErr)

servePage(op, ctx, arg, innerErr) ==
  LET r == getClient(ctx, sessionRepo, appRepo) IN
  IF r.err # Nil
    THEN Returned(op, ctx, arg, <<"getClient">>, r, Nil, r.err)
    ELSE Delegated(op, ctx, arg, <<"getClient">>, r, r.c, innerErr)

\* ... err = checkCSRF(ctx, c); if err != nil { return }; return s.Service.Op(ctx, client, c, ...)
mutate_NoCSRF(op, ctx, arg, innerErr) ==
  LET r == getClient(ctx, sessionRepo, appRepo) IN
  IF r.err # Nil
    THEN Returned(op, ctx, arg, <<"getClient">>, r, Nil, r.err)
    ELSE Delegated(op, ctx, arg, <<"getClient">>, r, r.c, innerErr)

mutate_MaskedErr(op, ctx, arg, innerErr) ==
  LET r == getClient(ctx, sessionRepo, appRepo) IN
  IF r.err # Nil
    THEN Returned(op, ctx, arg, <<"getClient">>, r, Nil, r.err)
    ELSE LET e == checkCSRF(ctx, r.c) IN
      IF e # Nil
        THEN Returned(op, ctx, arg, <<"getClient", "checkCSRF">>, r, e, ErrInvalidSession)
        ELSE Delegated(op, ctx, arg, <<"getClient", "checkCSRF">>, r, r.c, innerErr)

mutate(op, ctx, arg, innerErr) ==
  LET r == getClient(ctx, sessionRepo, appRepo) IN
  IF r.err # Nil
    THEN Returned(op, ctx, arg, <<"getClient">>, r, Nil, r.err)
    ELSE LET e == checkCSRF(ctx, r.c) IN
      IF e # Nil
        THEN Returned(op, ctx, arg, <<"getClient", "checkCSRF">>, r, e, e)
        ELSE Delegated(op, ctx, arg, <<"getClient", "checkCSRF">>, r, r.c, innerErr)

\* A result is handed to the route that asked for it before the next step is taken.
Quiet == last = NoCall

ServeTimelinePage(ctx, arg, innerErr) ==
  Quiet /\ last' = servePage("ServeTimelinePage", ctx, arg, innerErr) /\ UNCHANGED <<sessionRepo, appRepo, calls, issued, sidCount, regCount, clientScope>>
ServeThreadPage(ctx, arg, innerErr) ==
  Quiet /\ last' = servePage("ServeThreadPage", ctx, arg, innerErr) /\ UNCHANGED <<sessionRepo, appRepo, calls, issued, sidCount, regCount, clientScope>>
ServeNotificationPage(ctx, arg, innerErr) ==
  Quiet /\ last' = servePage("ServeNotificationPage", ctx, arg, innerErr) /\ UNCHANGED <<sessionRepo, appRepo, calls, issued, sidCount, regCount, clientScope>>
ServeUserPage(ctx, arg, innerErr) ==
  Quiet /\ last' = servePage("ServeUserPage", ctx, arg, innerErr) /\ UNCHANGED <<sessionRepo, appRepo, calls, issued, sidCount, regCount, clientScope>>
ServeAboutPage(ctx, arg, innerErr) ==
  Quiet /\ last' = servePage("ServeAboutPage", ctx, arg, innerErr) /\ UNCHANGED <<sessionRepo, appRepo, calls, issued, sidCount, regCount, clientScope>>
ServeEmojiPage(ctx, arg, innerErr) ==
  Quiet /\ last' = servePage("ServeEmojiPage", ctx, arg, innerErr) /\ UNCHANGED <<sessionRepo, appRepo, calls, issued, sidCount, regCount, clientScope>>
ServeLikedByPage(ctx, arg, innerErr) ==
  Quiet /\ last' = servePage("ServeLikedByPage", ctx, arg, innerErr) /\ UNCHANGED <<sessionRepo, appRepo, calls, issued, sidCount, regCount, clientScope>>
ServeRetweetedByPage(ctx, arg, innerErr) ==
  Quiet /\ last' = servePage("ServeRetweetedByPage", ctx, arg, innerErr) /\ UNCHANGED <<sessionRepo, appRepo, calls, issued, sidCount, regCount, clientScope>>
ServeFollowingPage(ctx, arg, innerErr) ==
  Quiet /\ last' = servePage("ServeFollowingPage", ctx, arg, innerErr) /\ UNCHANGED <<sessionRepo, appRepo, calls, issued, sidCount, regCount, clientScope>>
ServeFollowersPage(ctx, arg, innerErr) ==
  Quiet /\ last' = servePage("ServeFollowersPage", ctx, arg, innerErr) /\ UNCHANGED <<sessionRepo, appRepo, calls, issued, sidCount, regCount, clientScope>>
ServeSearchPage(ctx, arg, innerErr) ==
  Quiet /\ last' = servePage("ServeSearchPage", ctx, arg, innerErr) /\ UNCHANGED <<sessionRepo, appRepo, calls, issued, sidCount, regCount, clientScope>>
ServeSettingsPage(ctx, arg, innerErr) ==
  Quiet /\ last' = servePage("ServeSettingsPage", ctx, arg, innerErr) /\ UNCHANGED <<sessionRepo, appRepo, calls, issued, sidCount, regCount, clientScope>>

SaveSettings(ctx, arg, innerErr) ==
  Quiet /\ last' = mutate("SaveSettings", ctx, arg, innerErr) /\ UNCHANGED <<sessionRepo, appRepo, calls, issued, sidCount, regCount, clientScope>>
Like(ctx, arg, innerErr) ==
  Quiet /\ last' = mutate("Like", ctx, arg, innerErr) /\ UNCHANGED <<sessionRepo, appRepo, calls, issued, sidCount, regCount, clientScope>>
UnLike(ctx, arg, innerErr) ==
  Quiet /\ last' = mutate("UnLike", ctx, arg, innerErr) /\ UNCHANGED <<sessionRepo, appRepo, calls, issued, sidCount, regCount, clientScope>>
Retweet(ctx, arg, innerErr) ==
  Quiet /\ last' = mutate("Retweet", ctx, arg, innerErr) /\ UNCHANGED <<sessionRepo, appRepo, calls, issued, sidCount, regCount, clientScope>>
UnRetweet(ctx, arg, innerErr) ==
  Quiet /\ last' = mutate("UnRetweet", ctx, arg, innerErr) /\ UNCHANGED <<sessionRepo, appRepo, calls, issued, sidCount, regCount, clientScope>>
PostTweet(ctx, arg, innerErr) ==
  Quiet /\ last' = mutate("PostTweet", ctx, arg, innerErr) /\ UNCHANGED <<sessionRepo, appRepo, calls, issued, sidCount, regCount, clientScope>>
Follow(ctx, arg, innerErr) ==
  Quiet /\ last' = mutate("Follow", ctx, arg, innerErr) /\ UNCHANGED <<sessionRepo, appRepo, calls, issued, sidCount, regCount, clientScope>>
UnFollow(ctx, arg, innerErr) ==
  Quiet /\ last' = mutate("UnFollow", ctx, arg, innerErr) /\ UNCHANGED <<sessionRepo, appRepo, calls, issued, sidCount, regCount, clientScope>>

ServeOps == {"ServeTimelinePage", "ServeThreadPage", "ServeNotificationPage",
             "ServeUserPage", "ServeAboutPage", "ServeEmojiPage", "ServeLikedByPage",
             "ServeRetweetedByPage", "ServeFollowingPage", "ServeFollowersPage",
             "ServeSearchPage", "ServeSettingsPage"}

MutatingOps == {"SaveSettings", "Like", "UnLike", "Retweet", "UnRetweet",
                "PostTweet", "Follow", "UnFollow"}

(***************************************************************************)
(* Inputs.                                                                 *)
(***************************************************************************)
SessionIDInputs == {"", "s1", "s2", "s9"}
CSRFInputs == {"", "ab", "AB", "cd"}

Ctx(hasSession, sessionID, hasCSRF, csrfToken) ==
  [k \in (IF hasSession THEN {"session_id"} ELSE {}) \cup (IF hasCSRF THEN {"csrf_token"} ELSE {})
     |-> IF k = "session_id" THEN sessionID ELSE csrfToken]

Ctxs == {Ctx(hs, sid, hc, tok) : hs \in BOOLEAN, sid \in SessionIDInputs,
                                  hc \in BOOLEAN, tok \in CSRFInputs}

\* What a caller may pass as the client argument: nothing, or a client of its own.
CallerClient == [Client |-> [Server |-> "https://evil.org", ClientID |-> "id-x",
                             ClientSecret |-> "secret-x", AccessToken |-> "t9"],
                 Session |-> Session("s9", "https://evil.org", "t9", "cd")]
ClientArgs == {NilClient, CallerClient}

InnerErrs == {Nil, ErrRemote}

(***************************************************************************)
(* The gateway over repositories that hold anything: NewAuthService is      *)
(* handed the two repositories, whatever was persisted in them.            *)
(***************************************************************************)
InstanceURLs == {"https://a.org", "https://b.org"}

StoredSessions ==
  LET one == {Session("s1", i, t, k) : i \in InstanceURLs, t \in {"", "t1"}, k \in {"", "ab", "AB"}}
      two == {Session("s2", "https://b.org", "t2", "ab")}
  IN  {<<>>} \cup {("s1" :> a) : a \in one} \cup {("s2" :> b) : b \in two}
        \cup {("s1" :> a) @@ ("s2" :> b) : a \in one, b \in two}

StoredApps ==
  {[i \in I |-> App(i, "id-" \o i, "secret-" \o i)] : I \in SUBSET InstanceURLs}

InitGateway ==
  /\ sessionRepo \in StoredSessions
  /\ appRepo \in StoredApps
  /\ last = NoCall
  /\ calls = <<>>
  /\ issued = <<>>
  /\ sidCount = 0
  /\ regCount = 0
  /\ clientScope = ClientScope

\* One request against each store: the content operations leave both
\* repositories as they are, so a second request meets what the first one met.
NextGateway ==
  \/ \E ctx \in Ctxs, arg \in ClientArgs, innerErr \in InnerErrs : ServeTimelinePage(ctx, arg, innerErr)
  \/ \E ctx \in Ctxs, arg \in ClientArgs, innerErr \in InnerErrs : ServeThreadPage(ctx, arg, innerErr)
  \/ \E ctx \in Ctxs, arg \in ClientArgs, innerErr \in InnerErrs : ServeNotificationPage(ctx, arg, innerErr)
  \/ \E ctx \in Ctxs, arg \in ClientArgs, innerErr \in InnerErrs : ServeUserPage(ctx, arg, innerErr)
  \/ \E ctx \in Ctxs, arg \in ClientArgs, innerErr \in InnerErrs : ServeAboutPage(ctx, arg, innerErr)
  \/ \E ctx \in Ctxs, arg \in ClientArgs, innerErr \in InnerErrs : ServeEmojiPage(ctx, arg, innerErr)
  \/ \E ctx \in Ctxs, arg \in ClientArgs, innerErr \in InnerErrs : ServeLikedByPage(ctx, arg, innerErr)
  \/ \E ctx \in Ctxs, arg \in ClientArgs, innerErr \in InnerErrs : ServeRetweetedByPage(ctx, arg, innerErr)
  \/ \E ctx \in Ctxs, arg \in ClientArgs, innerErr \in InnerErrs : ServeFollowingPage(ctx, arg, innerErr)
  \/ \E ctx \in Ctxs, arg \in ClientArgs, innerErr \in InnerErrs : ServeFollowersPage(ctx, arg, innerErr)
  \/ \E ctx \in Ctxs, arg \in ClientArgs, innerErr \in InnerErrs : ServeSearchPage(ctx, arg, innerErr)
  \/ \E ctx \in Ctxs, arg \in ClientArgs, innerErr \in InnerErrs : ServeSettingsPage(ctx, arg, innerErr)
  \/ \E ctx \in Ctxs, arg \in ClientArgs, innerErr \in InnerErrs : SaveSettings(ctx, arg, innerErr)
  \/ \E ctx \in Ctxs, arg \in ClientArgs, innerErr \in InnerErrs : Like(ctx, arg, innerErr)
  \/ \E ctx \in Ctxs, arg \in ClientArgs, innerErr \in InnerErrs : UnLike(ctx, arg, innerErr)
  \/ \E ctx \in Ctxs, arg \in ClientArgs, innerErr \in InnerErrs : Retweet(ctx, arg, innerErr)
  \/ \E ctx \in Ctxs, arg \in ClientArgs, innerErr \in InnerErrs : UnRetweet(ctx, arg, innerErr)
  \/ \E ctx \in Ctxs, arg \in ClientArgs, innerErr \in InnerErrs : PostTweet(ctx, arg, innerErr)
  \/ \E ctx \in Ctxs, arg \in ClientArgs, innerErr \in InnerErrs : Follow(ctx, arg, innerErr)
  \/ \E ctx \in Ctxs, arg \in ClientArgs, innerErr \in InnerErrs : UnFollow(ctx, arg, innerErr)

SpecGateway == InitGateway /\ [][NextGateway]_vars

(***************************************************************************)
(* Sign-in: service.GetAuthUrl and authService.GetUserToken over            *)
(* service.GetUserToken.  A request's handler stops before each access to a *)
(* repository it shares with the other requests and before each network    *)
(* call.                                                                   *)
(***************************************************************************)
MaxSessions == 2

HasPrefix(s, prefix) ==
  Len(s) >= Len(prefix) /\ SubSeq(s, 1, Len(prefix)) = prefix

\* path.Join of elements without "." or "..": joined by "/", repeated slashes collapsed.
RECURSIVE Clean(_)
Clean(s) ==
  IF Len(s) < 2 THEN s
  ELSE IF SubSeq(s, 1, 1) = "/" /\ SubSeq(s, 2, 2) = "/"
    THEN Clean(SubSeq(s, 2, Len(s)))
    ELSE SubSeq(s, 1, 1) \o Clean(SubSeq(s, 2, Len(s)))

PathJoin(a, b) == Clean(a \o "/" \o b)

\* if !strings.HasPrefix(instance, "https://") { instance = "https://" + instance }
Normalize_None(instance) == instance

Normalize(instance) ==
  IF ~HasPrefix(instance, "https://") THEN "https://" \o instance ELSE instance

\* util.NewSessionId: an identifier no earlier call was given.
NewSessionId_Constant(n) == "s1"

NewSessionId(n) == "s" \o ToString(n + 1)

\* The repositories' Add: the record is stored under its key.
RepoAdd(repo, key, value) == [k \in DOMAIN repo \cup {key} |-> IF k = key THEN value ELSE repo[k]]

\* The credentials the remote instance answers the n-th registration with.
RemoteApplication(n) == [ClientID |-> "id-" \o ToString(n), ClientSecret |-> "secret-" \o ToString(n)]

NoApp == App("", "", "")
NoUrl == [url |-> "", scope |-> "", client_id |-> "", response_type |-> "", redirect_uri |-> ""]

\* u = path.Join(instance, "/oauth/authorize") with the query scope, client_id,
\* response_type, redirect_uri.
AuthorizeUrl_OtherCallback(instance, app) ==
  [url |-> PathJoin(instance, "/oauth/authorize"),
   scope |-> "read write follow",
   client_id |-> app.ClientID,
   response_type |-> "code",
   redirect_uri |-> ClientWebsite \o "/oauth/callback"]

AuthorizeUrl(instance, app) ==
  [url |-> PathJoin(instance, "/oauth/authorize"),
   scope |-> "read write follow",
   client_id |-> app.ClientID,
   response_type |-> "code",
   redirect_uri |-> ClientWebsite \o "/oauth_callback"]

Remove(f, key) == [k \in DOMAIN f \ {key} |-> f[k]]

\* The signin route (part_000 296-316) on what NewSession returned: the error
\* page with status 500, or the session_id cookie and the redirect to the URL.
NoCookie == [Name |-> "", Value |-> ""]

signin_CookieFirst(l) ==
  IF l.err # Nil
    THEN [status |-> 500, setCookie |-> [Name |-> "session_id", Value |-> l.sessionID],
          location |-> NoUrl, errorPage |-> l.err]
    ELSE [status |-> 302, setCookie |-> [Name |-> "session_id", Value |-> l.sessionID],
          location |-> l.redirectUrl, errorPage |-> Nil]

signin(l) ==
  IF l.err # Nil
    THEN [status |-> 500, setCookie |-> NoCookie, location |-> NoUrl, errorPage |-> l.err]
    ELSE [status |-> 302, setCookie |-> [Name |-> "session_id", Value |-> l.sessionID],
          location |-> l.redirectUrl, errorPage |-> Nil]

\* The call returns: its frame goes, its results are what the route sees and
\* answers the browser with.
Return(l) ==
  /\ calls' = Remove(calls, l.sessionID)
  /\ last' = [l EXCEPT !.pc = "returned"] @@ [response |-> signin(l)]
  /\ issued' = IF l.err = Nil THEN RepoAdd(issued, l.sessionID, l.redirectUrl) ELSE issued

Goto(label, l) ==
  /\ calls' = RepoAdd(calls, l.sessionID, [l EXCEPT !.pc = label])
  /\ last' = NoCall
  /\ issued' = issued

\* service.go 64-77: normalize, take a session id, sessionRepo.Add.
GetAuthUrl(input) ==
  /\ Quiet
  /\ sidCount < MaxSessions
  /\ sidCount' = sidCount + 1
  /\ LET instance == Normalize(input)
         sessionID == NewSessionId(sidCount)
         session == Session(sessionID, instance, "", "")
         l == [op |-> "GetAuthUrl", pc |-> "sessionRepo.Add", input |-> input,
               instance |-> instance, sessionID |-> sessionID,
               sessionAdds |-> <<session>>, appGets |-> <<>>, found |-> FALSE,
               app |-> NoApp, regCalls |-> <<>>, appAdds |-> <<>>,
               redirectUrl |-> NoUrl, err |-> Nil]
     IN \E stored \in BOOLEAN :
          IF stored
            THEN /\ sessionRepo' = RepoAdd(sessionRepo, sessionID, session)
                 /\ Goto("appRepo.Get", l)
            ELSE /\ sessionRepo' = sessionRepo
                 /\ Return([l EXCEPT !.err = ErrStorage])
  /\ UNCHANGED <<appRepo, regCount, clientScope>>

\* if err != nil (line 80): the lookup did not give an application.
LookupFailed_Always(r) == TRUE

LookupFailed(r) == r.err # Nil

\* service.go 79-83 and, when the application is there, 109-123.
GetAuthUrl_AppGet(id) ==
  /\ Quiet
  /\ calls[id].pc = "appRepo.Get"
  /\ LET l == calls[id]
         r == AppGet(appRepo, l.instance)
         got == [l EXCEPT !.appGets = Append(@, l.instance), !.found = (r.err = Nil)]
     IN IF LookupFailed(r)
          THEN IF r.err # ErrAppNotFound /\ r.err # Nil
                 THEN Return([got EXCEPT !.err = r.err])
                 ELSE Goto("RegisterApp", got)
          ELSE Return([got EXCEPT !.app = r.app,
                                  !.redirectUrl = AuthorizeUrl(l.instance, r.app)])
  /\ UNCHANGED <<sessionRepo, appRepo, sidCount, regCount, clientScope>>

\* if err != nil { return } (service.go 93-95): the call ends with RegisterApp's
\* error, redirectUrl as it was declared.
RegisterFailed_WithUrl(called) ==
  Return([called EXCEPT !.err = ErrRemote,
                        !.redirectUrl = AuthorizeUrl(called.instance, called.app)])

RegisterFailed_Retry(called) == Goto("RegisterApp", called)

RegisterFailed(called) == Return([called EXCEPT !.err = ErrRemote])

\* service.go 85-95: mastodon.RegisterApp against the instance.
GetAuthUrl_RegisterApp(id) ==
  /\ Quiet
  /\ calls[id].pc = "RegisterApp"
  /\ LET l == calls[id]
         config == [Server |-> l.instance, ClientName |-> ClientName,
                    Scopes |-> clientScope, Website |-> ClientWebsite,
                    RedirectURIs |-> ClientWebsite \o "/oauth_callback"]
         called == [l EXCEPT !.regCalls = Append(@, config)]
     IN \E registered \in BOOLEAN :
          IF registered
            THEN /\ regCount' = regCount + 1
                 /\ LET mastoApp == RemoteApplication(regCount + 1) IN
                    Goto("appRepo.Add",
                         [called EXCEPT !.app = App(l.instance, mastoApp.ClientID,
                                                    mastoApp.ClientSecret)])
            ELSE /\ regCount' = regCount
                 /\ RegisterFailed(called)
  /\ UNCHANGED <<sessionRepo, appRepo, sidCount, clientScope>>

\* service.go 97-123: appRepo.Add, then the authorization URL.
GetAuthUrl_AppAdd(id) ==
  /\ Quiet
  /\ calls[id].pc = "appRepo.Add"
  /\ LET l == calls[id]
         added == [l EXCEPT !.appAdds = Append(@, l.app)]
     IN \E stored \in BOOLEAN :
          IF stored
            THEN /\ appRepo' = RepoAdd(appRepo, l.app.InstanceURL, l.app)
                 /\ Return([added EXCEPT !.redirectUrl = AuthorizeUrl(l.instance, l.app)])
            ELSE /\ appRepo' = appRepo
                 /\ Return([added EXCEPT !.err = ErrStorage])
  /\ UNCHANGED <<sessionRepo, sidCount, regCount, clientScope>>

\* What the instance's token endpoint may answer: no answer, or a status and a body.
TokenResponses ==
  {[transport |-> FALSE, status |-> 0, json |-> FALSE, access_token |-> ""]}
    \cup {[transport |-> TRUE, status |-> 200, json |-> FALSE, access_token |-> ""]}
    \cup {[transport |-> TRUE, status |-> 200, json |-> TRUE, access_token |-> t] : t \in {"t1", ""}}
    \cup {[transport |-> TRUE, status |-> 401, json |-> TRUE, access_token |-> ""]}

NoResponse == [transport |-> FALSE, status |-> 0, json |-> FALSE, access_token |-> ""]

NoPost == [url |-> "", client_id |-> "", client_secret |-> "", grant_type |-> "",
           code |-> "", redirect_uri |-> ""]

\* if len(code) < 1 (service.go 128)
CodeMissing_Never(code) == FALSE

CodeMissing(code) == Len(code) < 1

\* service.GetUserToken (service.go 126-178): the code, the session and its
\* application, the POST to the token endpoint, the body decoded.  resp is the
\* endpoint's answer, should it be asked.
ServiceGetUserToken_ReturnsCode(sessionID, code, resp) ==
  LET s == SessionGet(sessionRepo, sessionID)
      a == AppGet(appRepo, s.session.InstanceURL)
      post == [url |-> a.app.InstanceURL \o "/oauth/token",
               client_id |-> a.app.ClientID, client_secret |-> a.app.ClientSecret,
               grant_type |-> "authorization_code", code |-> code,
               redirect_uri |-> ClientWebsite \o "/oauth_callback"]
  IN IF CodeMissing(code) THEN [token |-> "", err |-> ErrInvalidArgument, posts |-> <<>>]
     ELSE IF s.err # Nil THEN [token |-> "", err |-> s.err, posts |-> <<>>]
     ELSE IF a.err # Nil THEN [token |-> "", err |-> a.err, posts |-> <<>>]
     ELSE IF ~resp.transport THEN [token |-> "", err |-> ErrRemote, posts |-> <<post>>]
     ELSE IF ~resp.json THEN [token |-> "", err |-> ErrDecode, posts |-> <<post>>]
     ELSE [token |-> code, err |-> Nil, posts |-> <<post>>]

ServiceGetUserToken(sessionID, code, resp) ==
  LET s == SessionGet(sessionRepo, sessionID)
      a == AppGet(appRepo, s.session.InstanceURL)
      post == [url |-> a.app.InstanceURL \o "/oauth/token",
               client_id |-> a.app.ClientID, client_secret |-> a.app.ClientSecret,
               grant_type |-> "authorization_code", code |-> code,
               redirect_uri |-> ClientWebsite \o "/oauth_callback"]
  IN IF CodeMissing(code) THEN [token |-> "", err |-> ErrInvalidArgument, posts |-> <<>>]
     ELSE IF s.err # Nil THEN [token |-> "", err |-> s.err, posts |-> <<>>]
     ELSE IF a.err # Nil THEN [token |-> "", err |-> a.err, posts |-> <<>>]
     ELSE IF ~resp.transport THEN [token |-> "", err |-> ErrRemote, posts |-> <<post>>]
     ELSE IF ~resp.json THEN [token |-> "", err |-> ErrDecode, posts |-> <<post>>]
     ELSE [token |-> resp.access_token, err |-> Nil, posts |-> <<post>>]

\* c.Session.AccessToken = token (auth.go 76)
WithToken_Dropped(session, token) == session

WithToken_FreshSession(session, token) ==
  Session(session.ID, session.InstanceURL, token, "")

WithToken(session, token) == [session EXCEPT !.AccessToken = token]

SignedIn(ctx, sessionID, code, r, posts, resp, adds, token, err) ==
  [op |-> "GetUserToken", ctx |-> ctx, sessionID |-> sessionID, code |-> code,
   resolved |-> r, posts |-> posts, resp |-> resp, sessionAdds |-> adds,
   token |-> token, err |-> err]

\* s.Service.GetUserToken(ctx, c.Session.ID, c, code) (auth.go 71): the session
\* id handed on is the resolved client's, not the parameter.
TokenSessionID_Parameter(c, sessionID) == sessionID

TokenSessionID(c, sessionID) == c.Session.ID

\* authService.GetUserToken (auth.go 64-83): the client of the context, the
\* wrapped GetUserToken with the client's session id, the token into the
\* client's session, sessionRepo.Add.  stored is whether the repository takes
\* the write.
GetUserToken_CodeFirst(ctx, sessionID, code, resp, stored) ==
  /\ Quiet
  /\ LET r == getClient(ctx, sessionRepo, appRepo) IN
     IF CodeMissing(code)
       THEN /\ last' = SignedIn(ctx, sessionID, code, r, <<>>, NoResponse, <<>>, "", ErrInvalidArgument)
            /\ sessionRepo' = sessionRepo
     ELSE IF r.err # Nil
       THEN /\ last' = SignedIn(ctx, sessionID, code, r, <<>>, NoResponse, <<>>, "", r.err)
            /\ sessionRepo' = sessionRepo
       ELSE LET t == ServiceGetUserToken(TokenSessionID(r.c, sessionID), code, resp)
                asked == IF t.posts = <<>> THEN NoResponse ELSE resp
            IN IF t.err # Nil
                 THEN /\ last' = SignedIn(ctx, sessionID, code, r, t.posts, asked, <<>>, t.token, t.err)
                      /\ sessionRepo' = sessionRepo
                 ELSE LET session == WithToken(r.c.Session, t.token) IN
                      IF stored
                        THEN /\ sessionRepo' = RepoAdd(sessionRepo, session.ID, session)
                             /\ last' = SignedIn(ctx, sessionID, code, r, t.posts, asked,
                                                 <<session>>, t.token, Nil)
                        ELSE /\ sessionRepo' = sessionRepo
                             /\ last' = SignedIn(ctx, sessionID, code, r, t.posts, asked,
                                                 <<session>>, t.token, ErrStorage)
  /\ UNCHANGED <<appRepo, calls, issued, sidCount, regCount, clientScope>>

GetUserToken(ctx, sessionID, code, resp, stored) ==
  /\ Quiet
  /\ LET r == getClient(ctx, sessionRepo, appRepo) IN
     IF r.err # Nil
       THEN /\ last' = SignedIn(ctx, sessionID, code, r, <<>>, NoResponse, <<>>, "", r.err)
            /\ sessionRepo' = sessionRepo
       ELSE LET t == ServiceGetUserToken(TokenSessionID(r.c, sessionID), code, resp)
                asked == IF t.posts = <<>> THEN NoResponse ELSE resp
            IN IF t.err # Nil
                 THEN /\ last' = SignedIn(ctx, sessionID, code, r, t.posts, asked, <<>>, t.token, t.err)
                      /\ sessionRepo' = sessionRepo
                 ELSE LET session == WithToken(r.c.Session, t.token) IN
                      IF stored
                        THEN /\ sessionRepo' = RepoAdd(sessionRepo, session.ID, session)
                             /\ last' = SignedIn(ctx, sessionID, code, r, t.posts, asked,
                                                 <<session>>, t.token, Nil)
                        ELSE /\ sessionRepo' = sessionRepo
                             /\ last' = SignedIn(ctx, sessionID, code, r, t.posts, asked,
                                                 <<session>>, t.token, ErrStorage)
  /\ UNCHANGED <<appRepo, calls, issued, sidCount, regCount, clientScope>>

InstanceInputs == {"a.org", "https://a.org", "b.org"}
CallbackCtxs == {c \in Ctxs : ~HasValue(c, "csrf_token")}
SessionIDArgs == {"", "s1"}
CodeInputs == {"", "c1"}

\* An answer of the token endpoint and of the repository is drawn only for a call
\* that asks for one: one stand-in otherwise.
Answers(ctx, code) ==
  IF getClient(ctx, sessionRepo, appRepo).err # Nil \/ code = ""
    THEN {<<NoResponse, TRUE>>}
    ELSE {<<resp, stored>> \in TokenResponses \X BOOLEAN :
            (~resp.transport \/ ~resp.json) => stored}

\* The route has the result: the error page, or the redirect.
Respond ==
  /\ ~Quiet
  /\ last' = NoCall
  /\ UNCHANGED <<sessionRepo, appRepo, calls, issued, sidCount, regCount, clientScope>>

Init ==
  /\ sessionRepo = <<>>
  /\ appRepo = <<>>
  /\ last = NoCall
  /\ calls = <<>>
  /\ issued = <<>>
  /\ sidCount = 0
  /\ regCount = 0
  /\ clientScope = ClientScope

Next ==
  \/ \E input \in InstanceInputs : GetAuthUrl(input)
  \/ \E id \in DOMAIN calls : GetAuthUrl_AppGet(id)
  \/ \E id \in DOMAIN calls : GetAuthUrl_RegisterApp(id)
  \/ \E id \in DOMAIN calls : GetAuthUrl_AppAdd(id)
  \/ \E ctx \in CallbackCtxs, sessionID \in SessionIDArgs, code \in CodeInputs :
       \E answer \in Answers(ctx, code) :
         GetUserToken(ctx, sessionID, code, answer[1], answer[2])
  \/ Respond

Spec == Init /\ [][Next]_vars

(***************************************************************************)
(* Sign-in together with content operations on the sessions it made, as    *)
(* the routes call them: the session id of the cookie, the csrf_token of   *)
(* the form, no client argument.                                           *)
(***************************************************************************)
RouteCtxs == {Ctx(hs, sid, hc, tok) : hs \in BOOLEAN, sid \in {"s1", "s2"},
                                       hc \in BOOLEAN, tok \in {"", "ab"}}

NextContent ==
  \/ \E ctx \in RouteCtxs, innerErr \in InnerErrs : ServeTimelinePage(ctx, NilClient, innerErr)
  \/ \E ctx \in RouteCtxs, innerErr \in InnerErrs : Like(ctx, NilClient, innerErr)
  \/ \E ctx \in RouteCtxs, innerErr \in InnerErrs : PostTweet(ctx, NilClient, innerErr)

SpecSession == Init /\ [][Next \/ NextContent]_vars

(***************************************************************************)
(* Sign-in requests alone, over what the form's instance field may hold:   *)
(* a bare domain, a domain with either scheme.                             *)
(***************************************************************************)
SchemeInputs == {"a.org", "https://a.org", "http://a.org", "https://b.org", "http://b.org"}

NextScheme ==
  \/ \E input \in SchemeInputs : GetAuthUrl(input)
  \/ \E id \in DOMAIN calls : GetAuthUrl_AppGet(id)
  \/ \E id \in DOMAIN calls : GetAuthUrl_RegisterApp(id)
  \/ \E id \in DOMAIN calls : GetAuthUrl_AppAdd(id)
  \/ Respond

SpecScheme == Init /\ [][NextScheme]_vars

(***************************************************************************)
(* Sign-out (the /signout route): the response expires the session_id      *)
(* cookie and redirects to "/".  ctx is the context of the request's       *)
(* cookie; the handler does not read it.                                   *)
(***************************************************************************)
\* http.SetCookie(w, &http.Cookie{Name: "session_id", Value: "", Expires: time.Now()})
SignoutCookie == [Name |-> "session_id", Value |-> "", Expired |-> TRUE]

\* "TODO remove session from database": the repository is left as it is.
SignoutSessions_Removed(sessions, ctx) ==
  IF HasValue(ctx, "session_id")
    THEN [k \in DOMAIN sessions \ {ctx["session_id"]} |-> sessions[k]]
    ELSE sessions

SignoutSessions(sessions, ctx) == sessions

signout(ctx) ==
  /\ Quiet
  /\ sessionRepo' = SignoutSessions(sessionRepo, ctx)
  /\ last' = [op |-> "signout", ctx |-> ctx, setCookie |-> SignoutCookie,
              location |-> "/", status |-> 302]
  /\ UNCHANGED <<appRepo, calls, issued, sidCount, regCount, clientScope>>

NextSignout == \E ctx \in CallbackCtxs : signout(ctx)

SpecSignout == Init /\ [][Next \/ NextSignout]_vars

(***************************************************************************)
(* The routes to the content operations (NewHandler, part_000 63-628): the *)
(* table, and what each handler makes of the request before it calls the   *)
(* Service.  A request is its method and path, its session_id cookie if it *)
(* has one, and the csrf_token value of its form ("" when the form has     *)
(* none).                                                                  *)
(***************************************************************************)
\* r.HandleFunc(path, handler).Methods(method); op is the Service method the
\* handler calls, csrf whether it builds its context with newCtxWithSesionCSRF.
Routes == {
    [path |-> "/timeline/{type}", method |-> "GET", handler |-> "timelinePage", op |-> "ServeTimelinePage", csrf |-> FALSE],
    [path |-> "/thread/{id}", method |-> "GET", handler |-> "threadPage", op |-> "ServeThreadPage", csrf |-> FALSE],
    [path |-> "/likedby/{id}", method |-> "GET", handler |-> "likedByPage", op |-> "ServeLikedByPage", csrf |-> FALSE],
    [path |-> "/retweetedby/{id}", method |-> "GET", handler |-> "retweetedByPage", op |-> "ServeRetweetedByPage", csrf |-> FALSE],
    [path |-> "/following/{id}", method |-> "GET", handler |-> "followingPage", op |-> "ServeFollowingPage", csrf |-> FALSE],
    [path |-> "/followers/{id}", method |-> "GET", handler |-> "followersPage", op |-> "ServeFollowersPage", csrf |-> FALSE],
    [path |-> "/notifications", method |-> "GET", handler |-> "notificationsPage", op |-> "ServeNotificationPage", csrf |-> FALSE],
    [path |-> "/user/{id}", method |-> "GET", handler |-> "userPage", op |-> "ServeUserPage", csrf |-> FALSE],
    [path |-> "/usersearch/{id}", method |-> "GET", handler |-> "userSearchPage", op |-> "ServeUserSearchPage", csrf |-> FALSE],
    [path |-> "/about", method |-> "GET", handler |-> "aboutPage", op |-> "ServeAboutPage", csrf |-> FALSE],
    [path |-> "/emojis", method |-> "GET", handler |-> "emojisPage", op |-> "ServeEmojiPage", csrf |-> FALSE],
    [path |-> "/search", method |-> "GET", handler |-> "searchPage", op |-> "ServeSearchPage", csrf |-> FALSE],
    [path |-> "/settings", method |-> "GET", handler |-> "settingsPage", op |-> "ServeSettingsPage", csrf |-> FALSE],
    [path |-> "/post", method |-> "POST", handler |-> "post", op |-> "PostTweet", csrf |-> TRUE],
    [path |-> "/like/{id}", method |-> "POST", handler |-> "like", op |-> "Like", csrf |-> TRUE],
    [path |-> "/unlike/{id}", method |-> "POST", handler |-> "unlike", op |-> "UnLike", csrf |-> TRUE],
    [path |-> "/retweet/{id}", method |-> "POST", handler |-> "retweet", op |-> "Retweet", csrf |-> TRUE],
    [path |-> "/unretweet/{id}", method |-> "POST", handler |-> "unretweet", op |-> "UnRetweet", csrf |-> TRUE],
    [path |-> "/follow/{id}", method |-> "POST", handler |-> "follow", op |-> "Follow", csrf |-> TRUE],
    [path |-> "/unfollow/{id}", method |-> "POST", handler |-> "unfollow", op |-> "UnFollow", csrf |-> TRUE],
    [path |-> "/settings", method |-> "POST", handler |-> "settings", op |-> "SaveSettings", csrf |-> TRUE],
    [path |-> "/fluoride/like/{id}", method |-> "POST", handler |-> "fLike", op |-> "Like", csrf |-> TRUE],
    [path |-> "/fluoride/unlike/{id}", method |-> "POST", handler |-> "fUnlike", op |-> "UnLike", csrf |-> TRUE],
    [path |-> "/fluoride/retweet/{id}", method |-> "POST", handler |-> "fRetweet", op |-> "Retweet", csrf |-> TRUE],
    [path |-> "/fluoride/unretweet/{id}", method |-> "POST", handler |-> "fUnretweet", op |-> "UnRetweet", csrf |-> TRUE]}

NoCookieSent == [present |-> FALSE, value |-> ""]

\* newCtxWithSesion: the context holds session_id when the request has the cookie.
newCtxWithSesion(cookie) ==
  IF cookie.present THEN [k \in {"session_id"} |-> cookie.value] ELSE <<>>

newCtxWithSesionCSRF_NoToken(cookie, csrfToken) == newCtxWithSesion(cookie)

\* newCtxWithSesionCSRF: that context, and csrf_token.
newCtxWithSesionCSRF(cookie, csrfToken) ==
  LET ctx == newCtxWithSesion(cookie) IN
  [k \in DOMAIN ctx \cup {"csrf_token"} |-> IF k = "csrf_token" THEN csrfToken ELSE ctx[k]]

RouteMatch(method, path) == {r \in Routes : r.method = method /\ r.path = path}

\* The router takes the request to the handler registered for its method and
\* path; the handler builds its context and calls the Service.
ServeHTTP(method, path, cookie, formCSRF, innerErr) ==
  /\ Quiet
  /\ LET req == [method |-> method, path |-> path, cookie |-> cookie, formCSRF |-> formCSRF]
     IN IF RouteMatch(method, path) = {}
          THEN last' = [op |-> "NotFound", request |-> req]
          ELSE LET r == CHOOSE r \in RouteMatch(method, path) : TRUE
                   ctx == IF r.csrf THEN newCtxWithSesionCSRF(cookie, formCSRF)
                                    ELSE newCtxWithSesion(cookie)
                   res == IF r.op \in MutatingOps
                            THEN mutate(r.op, ctx, NilClient, innerErr)
                            ELSE servePage(r.op, ctx, NilClient, innerErr)
               IN last' = res @@ [request |-> req, handler |-> r.handler]
  /\ UNCHANGED <<sessionRepo, appRepo, calls, issued, sidCount, regCount, clientScope>>

Methods == {"GET", "POST"}
Paths == {r.path : r \in Routes}
Cookies == {NoCookieSent} \cup {[present |-> TRUE, value |-> v] : v \in {"", "s1", "s9"}}
FormCSRFs == {"", "ab"}

NextRoutes ==
  \E method \in Methods, path \in Paths, cookie \in Cookies, formCSRF \in FormCSRFs,
     innerErr \in InnerErrs : ServeHTTP(method, path, cookie, formCSRF, innerErr)

SpecRoutes == InitGateway /\ [][NextRoutes]_vars

(***************************************************************************)
(* The oauth callback over repositories that hold anything: sessions with  *)
(* a CSRF token and an earlier access token among them.                    *)
(***************************************************************************)
NextCallback ==
  \/ \E ctx \in CallbackCtxs, sessionID \in SessionIDArgs, code \in CodeInputs :
       \E answer \in Answers(ctx, code) :
         GetUserToken(ctx, sessionID, code, answer[1], answer[2])
  \/ Respond

SpecCallback == InitGateway /\ [][NextCallback]_vars

(***************************************************************************)
(* Sign-in requests of a service constructed with any client scope         *)
(* (NewService stores its clientScope parameter, service.go 42-62).        *)
(***************************************************************************)
ClientScopes == {"read write follow", "read", "read write"}

InitConfig ==
  /\ sessionRepo = <<>>
  /\ appRepo = <<>>
  /\ last = NoCall
  /\ calls = <<>>
  /\ issued = <<>>
  /\ sidCount = 0
  /\ regCount = 0
  /\ clientScope \in ClientScopes

NextConfig ==
  \/ \E input \in InstanceInputs : GetAuthUrl(input)
  \/ \E id \in DOMAIN calls : GetAuthUrl_AppGet(id)
  \/ \E id \in DOMAIN calls : GetAuthUrl_RegisterApp(id)
  \/ \E id \in DOMAIN calls : GetAuthUrl_AppAdd(id)
  \/ Respond

SpecConfig == InitConfig /\ [][NextConfig]_vars

(***************************************************************************)
(* Properties of getClient, checkCSRF and the content operations.          *)
(***************************************************************************)
\* The operations that resolve the client of their context.
ResolvingOps == ServeOps \cup MutatingOps \cup {"GetUserToken"}

CtxSessionID == last.ctx["session_id"]

\* The session of the last operation's context is stored and its instance registered.
CtxSessionStored ==
  /\ HasValue(last.ctx, "session_id")
  /\ CtxSessionID \in DOMAIN sessionRepo

CtxSessionResolves ==
  /\ CtxSessionStored
  /\ Len(CtxSessionID) >= 1
  /\ sessionRepo[CtxSessionID].InstanceURL \in DOMAIN appRepo

CheckedCSRF == Len(last.steps) >= 2 /\ last.steps[2] = "checkCSRF"

\* C1: a mutating operation reaches the wrapped Service only when the context's
\* session resolved to a client and the context's CSRF token equals the
\* session's stored csrfToken; otherwise the wrapped operation is not invoked.
C1_MutatingNeedsSessionAndCSRF ==
  (last.op \in MutatingOps /\ last.invoked) =>
     /\ CtxSessionResolves
     /\ HasValue(last.ctx, "csrf_token")
     /\ last.ctx["csrf_token"] = sessionRepo[CtxSessionID].CSRFToken
     /\ last.steps = <<"getClient", "checkCSRF", "Service." \o last.op>>

C1_Witness ==
  /\ last.op = "PostTweet"
  /\ last.invoked
  /\ HasValue(last.ctx, "csrf_token")
  /\ last.ctx["csrf_token"] = "ab"
  /\ sessionRepo[CtxSessionID].CSRFToken = "ab"

\* C2: a page operation reaches the wrapped Service only after getClient
\* succeeded for the context, and hands it the client built from the context's
\* session and that session's application, whatever client the caller passed.
C2_ServePageUsesResolvedClient ==
  (last.op \in ServeOps /\ last.invoked) =>
     /\ CtxSessionResolves
     /\ last.steps = <<"getClient", "Service." \o last.op>>
     /\ LET app == appRepo[sessionRepo[CtxSessionID].InstanceURL] IN
        last.innerClient =
          [Client |-> [Server |-> app.InstanceURL, ClientID |-> app.ClientID,
                       ClientSecret |-> app.ClientSecret,
                       AccessToken |-> sessionRepo[CtxSessionID].AccessToken],
           Session |-> sessionRepo[CtxSessionID]]

C2_Witness ==
  /\ last.op = "ServeTimelinePage"
  /\ last.invoked
  /\ last.arg = CallerClient
  /\ last.innerClient.Session.ID = "s1"
  /\ last.innerClient # last.arg

\* C3: getClient fails with ErrInvalidSession when the context carries no
\* session id, an empty one, or one that is no key of the session repository.
C3_UnresolvableSessionIsInvalidSession ==
  (last.op \in ResolvingOps /\ (~CtxSessionStored \/ Len(CtxSessionID) < 1)) =>
     /\ last.resolved.err = ErrInvalidSession
     /\ last.resolved.c = NilClient
     /\ last.err = ErrInvalidSession

C3_Witness ==
  /\ last.op = "Like"
  /\ HasValue(last.ctx, "session_id")
  /\ CtxSessionID = "s9"
  /\ "s1" \in DOMAIN sessionRepo
  /\ last.resolved.err = ErrInvalidSession

\* C4: when the context's session is stored but its instance has no application
\* in the registry, getClient returns ErrInvalidSession and no client.
C4_UnregisteredInstanceIsInvalidSession ==
  (last.op \in ResolvingOps /\ CtxSessionStored /\ Len(CtxSessionID) >= 1
     /\ sessionRepo[CtxSessionID].InstanceURL \notin DOMAIN appRepo) =>
     /\ last.resolved.err = ErrInvalidSession
     /\ last.resolved.c = NilClient

\* C5: checkCSRF succeeds exactly when the context carries a csrf_token equal,
\* character for character, to the session's CSRFToken, and fails with
\* ErrInvalidCSRFToken otherwise.
C5_CSRFExactMatch ==
  (last.op \in MutatingOps /\ CheckedCSRF) =>
     /\ last.csrfErr \in {Nil, ErrInvalidCSRFToken}
     /\ (last.csrfErr = Nil) <=>
          (/\ HasValue(last.ctx, "csrf_token")
           /\ last.ctx["csrf_token"] = sessionRepo[CtxSessionID].CSRFToken)
     /\ (last.csrfErr # Nil) => (last.err = ErrInvalidCSRFToken /\ ~last.invoked)

C5_Witness ==
  /\ last.op \in MutatingOps
  /\ CheckedCSRF
  /\ HasValue(last.ctx, "csrf_token")
  /\ last.ctx["csrf_token"] = "AB"
  /\ sessionRepo[CtxSessionID].CSRFToken = "ab"
  /\ last.csrfErr = ErrInvalidCSRFToken

\* C6: checkCSRF fails with ErrInvalidCSRFToken whenever the context carries no
\* csrf_token or an empty one, and whenever the session's CSRFToken is empty.
C6_CSRFAbsentValueFails ==
  (last.op \in MutatingOps /\ CheckedCSRF
     /\ (\/ ~HasValue(last.ctx, "csrf_token")
         \/ last.ctx["csrf_token"] = ""
         \/ sessionRepo[CtxSessionID].CSRFToken = "")) =>
     last.csrfErr = ErrInvalidCSRFToken

(***************************************************************************)
(* Properties of sign-in, over Spec.                                       *)
(***************************************************************************)
SignedInCall == last.op = "GetUserToken"

RoundTrip ==
  /\ SignedInCall
  /\ HasValue(last.ctx, "session_id")
  /\ last.ctx["session_id"] \in DOMAIN issued
  /\ last.code # ""
  /\ last.resp.transport
  /\ last.resp.json

\* C8, as claimed: in the round trip GetUserToken returns the token the
\* endpoint answered with and the session stored under the id has it as
\* AccessToken.
C8_RoundTripStoresToken ==
  RoundTrip =>
     /\ last.token = last.resp.access_token
     /\ sessionRepo[last.ctx["session_id"]].AccessToken = last.resp.access_token

\* C8, amended: in the round trip GetUserToken returns the token the endpoint
\* answered with; when sessionRepo.Add takes the write it returns no error and
\* the session stored under the id has the token as AccessToken, and when
\* sessionRepo.Add fails it returns that error with the token.
C8_RoundTripStoresTokenWhenAdded ==
  RoundTrip =>
     /\ last.token = last.resp.access_token
     /\ last.sessionAdds = <<WithToken(last.resolved.c.Session, last.resp.access_token)>>
     /\ last.err \in {Nil, ErrStorage}
     /\ last.err = Nil =>
          sessionRepo[last.ctx["session_id"]].AccessToken = last.resp.access_token

C8_Witness ==
  /\ RoundTrip
  /\ last.err = Nil
  /\ last.token = "t1"
  /\ last.resolved.c.Session.AccessToken = ""
  /\ sessionRepo[last.ctx["session_id"]].AccessToken = "t1"

\* Every GetAuthUrl call there is: those in flight, and the one that just returned.
Frames == {calls[id] : id \in DOMAIN calls} \cup (IF last.op = "GetAuthUrl" THEN {last} ELSE {})

\* C9: a GetAuthUrl call whose lookup found the instance's application makes
\* no registration call and no appRepo.Add, and an entry of the registry is
\* changed only by the appRepo.Add of a call whose lookup had found none.
C9_RegisteredInstanceNotRegisteredAgain ==
  /\ [](\A f \in Frames : f.found => (f.regCalls = <<>> /\ f.appAdds = <<>>))
  /\ [][\A i \in DOMAIN appRepo :
          /\ i \in DOMAIN appRepo'
          /\ appRepo'[i] # appRepo[i] =>
               \E id \in DOMAIN calls :
                 /\ calls[id].pc = "appRepo.Add"
                 /\ ~calls[id].found
                 /\ calls[id].instance = i]_vars

C9_Witness ==
  /\ last.op = "GetAuthUrl"
  /\ last.sessionID = "s2"
  /\ last.input = "a.org"
  /\ last.found
  /\ last.err = Nil
  /\ last.regCalls = <<>>
  /\ last.appAdds = <<>>
  /\ issued["s1"].client_id = last.redirectUrl.client_id
  /\ DOMAIN appRepo = {"https://a.org"}

NoScheme(input) == ~HasPrefix(input, "https://") /\ ~HasPrefix(input, "http://")

\* C10: a GetAuthUrl call given a domain without a scheme uses "https://"
\* followed by the domain in everything it does: the session it adds, the key
\* it looks up in the registry, the server it registers with, the application
\* it adds.
C10_NormalizedBeforeStorageAndNetwork ==
  \A f \in Frames :
    NoScheme(f.input) =>
      LET url == "https://" \o f.input IN
      /\ f.instance = url
      /\ f.sessionAdds # <<>>
      /\ \A k \in 1..Len(f.sessionAdds) : f.sessionAdds[k].InstanceURL = url
      /\ \A k \in 1..Len(f.appGets) : f.appGets[k] = url
      /\ \A k \in 1..Len(f.regCalls) : f.regCalls[k].Server = url
      /\ \A k \in 1..Len(f.appAdds) : f.appAdds[k].InstanceURL = url
      /\ f.sessionID \in DOMAIN sessionRepo => sessionRepo[f.sessionID].InstanceURL = url
      /\ f.appAdds # <<>> /\ f.err = Nil => url \in DOMAIN appRepo

C10_Witness ==
  /\ last.op = "GetAuthUrl"
  /\ last.input = "b.org"
  /\ last.err = Nil
  /\ Len(last.regCalls) = 1
  /\ last.regCalls[1].Server = "https://b.org"
  /\ sessionRepo[last.sessionID].InstanceURL = "https://b.org"
  /\ "https://b.org" \in DOMAIN appRepo

(***************************************************************************)
(* Properties of sign-in, continued.                                       *)
(***************************************************************************)
HasScheme(input) == HasPrefix(input, "https://") \/ HasPrefix(input, "http://")

\* C11: GetAuthUrl prefixes "https://" only to an input without a scheme: an
\* input that starts with "https://" or "http://" is the instance it uses,
\* unchanged, and normalizing the instance it uses again gives the same value.
C11_SchemeKeptAndIdempotent ==
  \A f \in Frames :
    /\ HasScheme(f.input) => f.instance = f.input
    /\ ~HasScheme(f.input) => f.instance = "https://" \o f.input
    /\ Normalize(f.instance) = f.instance

\* C12: every session in the session repository has an application for its
\* instance in the application repository.
C12_SessionHasRegisteredApp ==
  \A id \in DOMAIN sessionRepo : sessionRepo[id].InstanceURL \in DOMAIN appRepo

\* The GetAuthUrl call that just returned had called RegisterApp and got an error.
RegistrationFailed ==
  /\ last.op = "GetAuthUrl"
  /\ last.regCalls # <<>>
  /\ last.app = NoApp

NoTokenAnswer ==
  /\ SignedInCall
  /\ last.posts # <<>>
  /\ last.resp.transport
  /\ (\/ last.resp.status < 200
      \/ last.resp.status > 299
      \/ ~last.resp.json
      \/ last.resp.access_token = "")

\* C14: when the token endpoint answers with a status that is not 2xx or with a
\* body without an access token, GetUserToken returns an error, does not write
\* the session, and the AccessToken of the stored session is the one the
\* resolved session had.
C14_BadAnswerIsErrorAndTokenKept ==
  NoTokenAnswer =>
    /\ last.err # Nil
    /\ last.sessionAdds = <<>>
    /\ sessionRepo[last.ctx["session_id"]].AccessToken = last.resolved.c.Session.AccessToken

\* C15: a session whose AccessToken is not empty keeps a non-empty AccessToken
\* in every step.
C15_TokenNeverEmptiedAgain ==
  [][\A id \in DOMAIN sessionRepo :
       sessionRepo[id].AccessToken # "" =>
         (id \in DOMAIN sessionRepo' /\ sessionRepo'[id].AccessToken # "")]_vars

(***************************************************************************)
(* Properties of sign-out, over SpecSignout.                               *)
(***************************************************************************)
\* C16: sign-out expires the session_id cookie and changes neither repository:
\* every context resolves after it to what it resolved to before it, the
\* context of the signed-out cookie included.
C16_SignoutOnlyClearsCookie ==
  [][(last'.op = "signout" /\ last.op # "signout") =>
       /\ last'.setCookie = [Name |-> "session_id", Value |-> "", Expired |-> TRUE]
       /\ sessionRepo' = sessionRepo
       /\ appRepo' = appRepo
       /\ \A ctx \in CallbackCtxs \cup {last'.ctx} :
            getClient(ctx, sessionRepo', appRepo') = getClient(ctx, sessionRepo, appRepo)]_vars

C16_Witness ==
  /\ last.op = "signout"
  /\ HasValue(last.ctx, "session_id")
  /\ last.ctx["session_id"] = "s1"
  /\ "s1" \in DOMAIN issued
  /\ sessionRepo["s1"].AccessToken = "t1"
  /\ getClient(last.ctx, sessionRepo, appRepo).err = Nil
  /\ getClient(last.ctx, sessionRepo, appRepo).c.Client.AccessToken = "t1"

(***************************************************************************)
(* Properties of concurrent sign-in, over Spec.                            *)
(***************************************************************************)
\* The call's RegisterApp succeeded: it holds the credentials the instance gave it.
Registered(f) == f.regCalls # <<>> /\ f.app # NoApp

\* C17: among the GetAuthUrl calls for one instance at most one has a
\* successful RegisterApp, and an application is added to the repository only
\* for an instance the repository holds none for.
C17_AtMostOneRegistration ==
  /\ [](\A f, g \in Frames :
          (f.instance = g.instance /\ Registered(f) /\ Registered(g)) => f = g)
  /\ [][(last'.op = "GetAuthUrl" /\ last.op # "GetAuthUrl"
           /\ last'.appAdds # <<>> /\ last'.err = Nil)
          => last'.instance \notin DOMAIN appRepo]_vars

\* C18: an entry of the application repository, once there, is never removed
\* and never changed.
C18_RegisteredAppImmutable ==
  [][\A i \in DOMAIN appRepo :
       i \in DOMAIN appRepo' /\ appRepo'[i] = appRepo[i]]_vars

(***************************************************************************)
(* Properties of the content operations, continued, over SpecGateway.      *)
(***************************************************************************)
\* C19: a content operation returns the error of the step that failed, as that
\* step gave it, and takes no step after it: getClient's error without a CSRF
\* check or a call of the wrapped Service, checkCSRF's error without a call of
\* the wrapped Service, and the wrapped Service's own result otherwise.
C19_ErrorsPropagateUnchanged ==
  (last.op \in ServeOps \cup MutatingOps) =>
     /\ (last.resolved.err # Nil) =>
          /\ last.err = last.resolved.err
          /\ last.steps = <<"getClient">>
          /\ ~last.invoked
     /\ (last.resolved.err = Nil /\ last.csrfErr # Nil) =>
          /\ last.err = last.csrfErr
          /\ last.steps = <<"getClient", "checkCSRF">>
          /\ ~last.invoked
     /\ last.invoked =>
          /\ last.err = last.innerErr
          /\ last.steps[Len(last.steps)] = "Service." \o last.op
     /\ (last.err # Nil) =>
          last.err \in {last.resolved.err, last.csrfErr, last.innerErr}

C19_Witness ==
  /\ last.op = "Follow"
  /\ last.resolved.err = Nil
  /\ last.csrfErr = ErrInvalidCSRFToken
  /\ last.err = ErrInvalidCSRFToken
  /\ last.steps = <<"getClient", "checkCSRF">>

(***************************************************************************)
(* Properties of the network calls of sign-in, over Spec.                  *)
(***************************************************************************)
\* C20: a GetAuthUrl call calls RegisterApp at most once and a GetUserToken
\* call posts to the token endpoint at most once, whatever the answer was.
C20_NoRetry ==
  /\ \A f \in Frames : Len(f.regCalls) <= 1 /\ Len(f.appGets) <= 1
  /\ SignedInCall => Len(last.posts) <= 1
  /\ (last.op = "GetAuthUrl" /\ last.regCalls # <<>> /\ last.app = NoApp) => last.err # Nil
  /\ (SignedInCall /\ last.posts # <<>> /\ ~last.resp.transport) => last.err = ErrRemote

C20_Witness ==
  /\ last.op = "GetAuthUrl"
  /\ last.input = "a.org"
  /\ last.err = ErrRemote
  /\ Len(last.regCalls) = 1
  /\ last.regCalls[1].Server = "https://a.org"
  /\ regCount = 0

(***************************************************************************)
(* Properties of the sign-in route, over Spec.                             *)
(***************************************************************************)
\* C21: the signin route sets the session_id cookie to the session id
\* GetAuthUrl returned and redirects to the URL it returned exactly when
\* GetAuthUrl returned no error; on an error it sets no cookie and sends no
\* redirect.
C21_CookieAndRedirectIffSuccess ==
  (last.op = "GetAuthUrl") =>
     /\ (last.err = Nil) =>
          /\ last.response.setCookie = [Name |-> "session_id", Value |-> last.sessionID]
          /\ last.response.location = last.redirectUrl
          /\ last.redirectUrl # NoUrl
          /\ last.response.status = 302
     /\ (last.err # Nil) =>
          /\ last.response.setCookie = NoCookie
          /\ last.response.location = NoUrl
          /\ last.response.status = 500
          /\ last.response.errorPage = last.err

C21_Witness ==
  /\ last.op = "GetAuthUrl"
  /\ last.err = Nil
  /\ last.sessionID = "s2"
  /\ last.response.setCookie.Value = "s2"
  /\ last.response.location.client_id = "id-1"
  /\ "s1" \notin DOMAIN issued

(***************************************************************************)
(* Properties of the stored sessions, over Spec.                           *)
(***************************************************************************)
\* The step wrote a non-empty AccessToken under id: the session is new with
\* one, or its AccessToken changed to one.
TokenWritten(id) ==
  /\ sessionRepo'[id].AccessToken # ""
  /\ (id \notin DOMAIN sessionRepo
        \/ sessionRepo'[id].AccessToken # sessionRepo[id].AccessToken)

\* C22: a stored session has a non-empty AccessToken only from a GetUserToken
\* for its own id that returned no error, and the token stored is the one the
\* token endpoint answered that call with: GetAuthUrl writes sessions with an
\* empty AccessToken, and a non-empty one is only ever written by such a call.
C22_TokenOnlyFromCompletedHandshake ==
  /\ [](\A f \in Frames : \A k \in 1..Len(f.sessionAdds) : f.sessionAdds[k].AccessToken = "")
  /\ [][\A id \in DOMAIN sessionRepo' :
          TokenWritten(id) =>
            /\ last'.op = "GetUserToken"
            /\ last'.err = Nil
            /\ last'.ctx["session_id"] = id
            /\ last'.posts # <<>>
            /\ last'.resp.access_token = sessionRepo'[id].AccessToken]_vars

C22_Witness ==
  /\ SignedInCall
  /\ last.err = ErrRemote
  /\ last.posts # <<>>
  /\ last.ctx["session_id"] = "s1"
  /\ sessionRepo["s1"].AccessToken = "t1"
  /\ "s2" \in DOMAIN sessionRepo
  /\ sessionRepo["s2"].AccessToken = ""

(***************************************************************************)
(* Properties of content operations on the sessions sign-in made, over     *)
(* SpecSession.                                                            *)
(***************************************************************************)
\* C23: a content operation whose context names a session that GetAuthUrl
\* handed out and whose AccessToken is still empty fails with
\* ErrInvalidSession and does not call the wrapped Service.
C23_IncompleteSessionRejected ==
  (last.op \in ServeOps \cup MutatingOps /\ CtxSessionStored
     /\ CtxSessionID \in DOMAIN issued
     /\ sessionRepo[CtxSessionID].AccessToken = "") =>
     /\ last.err = ErrInvalidSession
     /\ ~last.invoked

(***************************************************************************)
(* Properties of the session repository over sign-in and sign-out, over    *)
(* SpecSignout.                                                            *)
(***************************************************************************)
\* C24: no step removes a session: every id of the session repository is still
\* one of its ids after the step, a sign-out and a failed sign-in included.
C24_SessionsNeverRemoved ==
  [][DOMAIN sessionRepo \subseteq DOMAIN sessionRepo']_vars

C24_Witness ==
  /\ last.op = "signout"
  /\ HasValue(last.ctx, "session_id")
  /\ last.ctx["session_id"] = "s1"
  /\ DOMAIN sessionRepo = {"s1", "s2"}
  /\ DOMAIN issued = {"s1"}
  /\ calls = <<>>

(***************************************************************************)
(* Properties of the routes, over SpecRoutes.                              *)
(***************************************************************************)
RequestSession(req, ctx) ==
  IF req.cookie.present
    THEN HasValue(ctx, "session_id") /\ ctx["session_id"] = req.cookie.value
    ELSE ~HasValue(ctx, "session_id")

SignedInStep == last'.op = "GetUserToken" /\ last.op # "GetUserToken"

\* C26: a GetUserToken call writes at most the session of the session id in
\* its context, whatever sessionID parameter it was given: it exchanges the
\* code for that session's instance, every other session and the application
\* repository are after the call what they were before it, and no session is
\* added, whether the call returns an error or not.
C26_WritesOnlyContextSession ==
  [][SignedInStep =>
       /\ appRepo' = appRepo
       /\ DOMAIN sessionRepo' = DOMAIN sessionRepo
       /\ \A id \in DOMAIN sessionRepo :
            (~HasValue(last'.ctx, "session_id") \/ id # last'.ctx["session_id"])
              => sessionRepo'[id] = sessionRepo[id]
       /\ \A k \in 1..Len(last'.sessionAdds) :
            last'.sessionAdds[k].ID = last'.ctx["session_id"]
       /\ (last'.resolved.err = Nil /\ last'.code # "") =>
            /\ Len(last'.posts) = 1
            /\ last'.posts[1].url =
                 sessionRepo[last'.ctx["session_id"]].InstanceURL \o "/oauth/token"
       /\ (last'.resolved.err # Nil) => sessionRepo' = sessionRepo]_vars

C26_Witness ==
  /\ SignedInCall
  /\ last.sessionID = "s1"
  /\ last.ctx = [session_id |-> "s2"]
  /\ last.err = Nil
  /\ last.token = "t1"
  /\ DOMAIN sessionRepo = {"s1", "s2"}
  /\ sessionRepo["s2"] = Session("s2", "https://b.org", "t1", "")
  /\ sessionRepo["s1"] = Session("s1", "https://a.org", "", "")

(***************************************************************************)
(* Frame properties of GetUserToken, over SpecCallback.                    *)
(***************************************************************************)
\* C27: a GetUserToken call that returns no error leaves the session it wrote
\* with the ID, InstanceURL and CSRFToken it had before the call; only its
\* AccessToken is the call's token.
C27_OnlyAccessTokenChanges ==
  [][(SignedInStep /\ last'.err = Nil) =>
       LET id == last'.ctx["session_id"] IN
       /\ id \in DOMAIN sessionRepo
       /\ sessionRepo'[id].ID = sessionRepo[id].ID
       /\ sessionRepo'[id].InstanceURL = sessionRepo[id].InstanceURL
       /\ sessionRepo'[id].CSRFToken = sessionRepo[id].CSRFToken
       /\ sessionRepo'[id].AccessToken = last'.token
       /\ sessionRepo' = [sessionRepo EXCEPT ![id].AccessToken = last'.token]]_vars

C27_Witness ==
  /\ SignedInCall
  /\ last.err = Nil
  /\ last.ctx = [session_id |-> "s1"]
  /\ last.resolved.c.Session = Session("s1", "https://a.org", "", "ab")
  /\ sessionRepo["s1"] = Session("s1", "https://a.org", "t1", "ab")

(***************************************************************************)
(* Properties of the handshake as a whole, over Spec.                      *)
(***************************************************************************)
\* C28: the client_id of the authorization URL GetAuthUrl returned for a
\* session is the client_id GetUserToken for that session sends to the token
\* endpoint, read from the application repository.
C28_SameClientIDInBothSteps ==
  (SignedInCall /\ last.posts # <<>> /\ last.ctx["session_id"] \in DOMAIN issued) =>
     last.posts[1].client_id = issued[last.ctx["session_id"]].client_id

\* C29: every GetAuthUrl call takes a session id that no other call, no stored
\* session and no returned URL has, and the session stored under a call's id
\* has that id and the normalized instance of that call's input.
C29_SessionsNotConfused ==
  /\ [](\A f \in Frames :
          /\ f.instance = (IF HasPrefix(f.input, "https://") THEN f.input
                                                              ELSE "https://" \o f.input)
          /\ (f.sessionID \in DOMAIN sessionRepo) =>
               /\ sessionRepo[f.sessionID].ID = f.sessionID
               /\ sessionRepo[f.sessionID].InstanceURL = f.instance)
  /\ [](\A id \in DOMAIN issued :
          /\ id \in DOMAIN sessionRepo
          /\ issued[id].url = PathJoin(sessionRepo[id].InstanceURL, "/oauth/authorize"))
  /\ [][sidCount' # sidCount =>
          LET id == NewSessionId(sidCount) IN
          /\ id \notin DOMAIN sessionRepo
          /\ id \notin DOMAIN calls
          /\ id \notin DOMAIN issued
          /\ (id \in DOMAIN calls' \/ (last'.op = "GetAuthUrl" /\ last'.sessionID = id))]_vars

C29_Witness ==
  /\ DOMAIN calls = {"s1", "s2"}
  /\ calls["s1"].input = "b.org"
  /\ calls["s2"].input = "a.org"
  /\ calls["s1"].pc = "appRepo.Add"
  /\ calls["s2"].pc = "appRepo.Add"
  /\ sessionRepo["s1"].InstanceURL = "https://b.org"
  /\ sessionRepo["s2"].InstanceURL = "https://a.org"

\* C30: the redirect URI of the application registration, the redirect_uri of
\* the authorization URL and the redirect_uri of the token exchange are all
\* the service's website followed by "/oauth_callback".
C30_SameCallbackInAllSteps ==
  LET callback == ClientWebsite \o "/oauth_callback" IN
  /\ \A f \in Frames :
       /\ \A k \in 1..Len(f.regCalls) : f.regCalls[k].RedirectURIs = callback
       /\ (f.redirectUrl # NoUrl) => f.redirectUrl.redirect_uri = callback
  /\ \A id \in DOMAIN issued : issued[id].redirect_uri = callback
  /\ (SignedInCall /\ last.posts # <<>>) =>
       /\ last.posts[1].redirect_uri = callback
       /\ (last.ctx["session_id"] \in DOMAIN issued) =>
            last.posts[1].redirect_uri = issued[last.ctx["session_id"]].redirect_uri

C30_Witness ==
  /\ SignedInCall
  /\ last.posts # <<>>
  /\ last.ctx = [session_id |-> "s1"]
  /\ "s1" \in DOMAIN issued
  /\ issued["s1"].redirect_uri = "https://bloat.example/oauth_callback"
  /\ last.posts[1].redirect_uri = "https://bloat.example/oauth_callback"
  /\ regCount = 1

(***************************************************************************)
(* Properties of the requested scope, over SpecConfig.                     *)
(***************************************************************************)
\* C31: the scope in the authorization URL GetAuthUrl returns equals the scope
\* the application was registered with, the service's configured client
\* scope, whatever scope the service was configured with.
C31_UrlScopeIsRegisteredScope ==
  (last.op = "GetAuthUrl" /\ last.err = Nil) =>
     /\ last.redirectUrl.scope = clientScope
     /\ \A k \in 1..Len(last.regCalls) : last.regCalls[k].Scopes = last.redirectUrl.scope

(***************************************************************************)
(* Properties of the order of the oauth callback's steps, over             *)
(* SpecCallback.                                                           *)
(***************************************************************************)
\* The context carries no session id, an empty one, or one the repository
\* does not hold.
SessionUnresolved(ctx, sessions) ==
  \/ ~HasValue(ctx, "session_id")
  \/ Len(ctx["session_id"]) < 1
  \/ ctx["session_id"] \notin DOMAIN sessions

\* C32: GetUserToken through the gateway resolves the session first: called
\* with a context whose session is not in the Session Store (no id, an empty
\* id, an unknown id), it returns ErrInvalidSession whether the code is empty
\* or not, posts nothing to the token endpoint and writes nothing to the
\* Session Store.
C32_SessionResolvedFirst ==
  [][(last'.op = "GetUserToken" /\ SessionUnresolved(last'.ctx, sessionRepo)) =>
       /\ last'.err = ErrInvalidSession
       /\ last'.posts = <<>>
       /\ last'.sessionAdds = <<>>
       /\ sessionRepo' = sessionRepo]_vars

C32_Witness ==
  /\ SignedInCall
  /\ last.ctx = [session_id |-> "s9"]
  /\ last.code = "c1"
  /\ DOMAIN sessionRepo = {"s1", "s2"}
  /\ last.err = ErrInvalidSession
  /\ last.posts = <<>>
  /\ last.sessionAdds = <<>>

====
